---- MODULE Spec2Model ----
(***************************************************************************)
(* pconsole (spotdl/console/pconsole.py): the interactive console loop.    *)
(* One downloader object lives across calls of pconsole; a call reads      *)
(* lines from standard input until it stops.  Text is modelled as a        *)
(* sequence of one-character strings, so that strip(), lower(), split(),   *)
(* replace(), join() and the `in` substring test are computed.             *)
(***************************************************************************)
EXTENDS Integers, Sequences, FiniteSets, TLC

VARIABLES
    settings,                     \* downloader.settings (the keys pconsole reads or writes)
    download_song_to_file,        \* downloader.download_song_to_file: number of wrappers around the method
    use_artist_album_structure,   \* local, line 30
    replace_spaces,               \* local, line 31
    original_output,              \* local, line 34
    original_download_song_to_file, \* local, line 125
    line,                         \* what sys.stdin.readline() returned last
    url,                          \* local, line 93
    songs,                        \* local, line 113
    pc,                           \* where the call is
    eof,                          \* the input stream is exhausted
    out,                          \* what the last step printed or logged
    outcome,                      \* how the last call left: "returned" or "raised"
    resolveCall,                  \* arguments of the get_simple_songs call made for the current line
    batchCall,                    \* argument of the download_multiple_songs call made for the current line
    nResolve,                     \* get_simple_songs calls made for the current line
    nBatch,                       \* download_multiple_songs calls made for the current line
    lastDownload,                 \* the last download_song_to_file call made for the current line and what the method received
    settings0,                    \* downloader.settings when pconsole was called
    entry0,                       \* downloader.download_song_to_file when pconsole was called
    exitedBy,                     \* where the call left the loop and by what: the break or an exception
    laterDownload                 \* the last download_song_to_file call made after the call ended

vars == <<settings, download_song_to_file, use_artist_album_structure, replace_spaces,
          original_output, original_download_song_to_file, line, url, songs, pc, eof, out,
          outcome, resolveCall, batchCall, nResolve, nBatch, lastDownload, settings0, entry0,
          exitedBy, laterDownload>>

-----------------------------------------------------------------------------
(* Bounds of the model. *)

\* longest destination path a download call is given
MaxPathLen == 3
\* pconsole is not called on a downloader that already carries this many wrappers
MaxWrap == 2
\* most songs get_simple_songs returns
MaxSongs == 2

-----------------------------------------------------------------------------
(* Text. *)

\* the characters str.strip() removes (line 93)
Whitespace == {" ", "\t", "\n", "\r"}

UpperLetters == <<"A","B","C","D","E","F","G","H","I","J","K","L","M",
                  "N","O","P","Q","R","S","T","U","V","W","X","Y","Z">>
LowerLetters == <<"a","b","c","d","e","f","g","h","i","j","k","l","m",
                  "n","o","p","q","r","s","t","u","v","w","x","y","z">>

LowerChar(c) ==
    IF \E i \in 1..Len(UpperLetters) : UpperLetters[i] = c
    THEN LowerLetters[CHOOSE i \in 1..Len(UpperLetters) : UpperLetters[i] = c]
    ELSE c

\* str.lower() (lines 101, 104)
Lower(s) == [i \in 1..Len(s) |-> LowerChar(s[i])]

RECURSIVE LStrip(_)
LStrip(s) == IF s # <<>> /\ Head(s) \in Whitespace THEN LStrip(Tail(s)) ELSE s

RECURSIVE RStrip(_)
RStrip(s) ==
    IF s # <<>> /\ s[Len(s)] \in Whitespace THEN RStrip(SubSeq(s, 1, Len(s) - 1)) ELSE s

\* a strip that removes the trailing newline alone
StripNewlineOnly(s) ==
    IF s # <<>> /\ s[Len(s)] = "\n" THEN SubSeq(s, 1, Len(s) - 1) ELSE s

\* str.strip() (line 93)
Strip(s) == RStrip(LStrip(s))

\* `sub in s` on strings (line 109)
Contains(sub, s) ==
    \E i \in 0..(Len(s) - Len(sub)) : SubSeq(s, i + 1, i + Len(sub)) = sub

\* str.split('/') (line 49): the segments between the slashes, at least one
RECURSIVE Split(_)
SplitAt(s, i) == <<SubSeq(s, 1, i - 1)>> \o Split(SubSeq(s, i + 1, Len(s)))
Split(s) ==
    IF \E i \in 1..Len(s) : s[i] = "/"
    THEN SplitAt(s, CHOOSE i \in 1..Len(s) : s[i] = "/" /\ \A j \in 1..(i - 1) : s[j] # "/")
    ELSE <<s>>

\* '/'.join(parts) (line 51)
RECURSIVE Join(_)
Join(parts) ==
    IF Len(parts) = 1 THEN parts[1] ELSE parts[1] \o <<"/">> \o Join(Tail(parts))

\* str.replace(' ', '-') (line 50)
ReplaceSpaces(s) == [i \in 1..Len(s) |-> IF s[i] = " " THEN "-" ELSE s[i]]

SeqsUpTo(S, n) == UNION {[1..k -> S] : k \in 0..n}

-----------------------------------------------------------------------------
(* The words and the input lines. *)

ExitWord == <<"e","x","i","t">>
QuitWord == <<"q","u","i","t">>
HelpWord == <<"h","e","l","p">>
AlbumWord == <<"a","l","b","u","m">>
SpotifyHost == <<"o","p","e","n",".","s","p","o","t","i","f","y",".","c","o","m">>
StructuredTemplate == "{artist}/{album}/{title}"

\* the lines the user types; each ends with the newline readline() keeps
InputLines == {
    <<"\n">>,
    <<" ", " ", "\n">>,
    ExitWord \o <<"\n">>,
    <<"E","x","i","t","\n">>,
    <<" ", " ", "Q","U","I","T", " ", " ", "\n">>,
    ExitWord \o <<" ","n","o","w","\n">>,
    <<"q","u","i","t","s","\n">>,
    HelpWord \o <<"\n">>,
    <<"H","E","L","P","\n">>,
    SpotifyHost \o <<"/">> \o AlbumWord \o <<"/","x","\n">>,
    <<" ">> \o SpotifyHost \o <<"/">> \o AlbumWord \o <<"/","y"," ","\n">>,
    SpotifyHost \o <<"/","t","r","a","c","k","/","x","\n">>,
    SpotifyHost \o <<"/","A","l","b","u","m","/","x","\n">>,
    AlbumWord \o <<"\n">> }

PathChars == {" ", "/", "a"}
Paths == SeqsUpTo(PathChars, MaxPathLen)

SongLists == {[i \in 1..n |-> i] : n \in 0..MaxSongs}

\* what a collaborator or the prompt can raise
Raised == {"KeyboardInterrupt", "EOFError", "Exception"}

NoCall == [made |-> FALSE]

NoExit == [at |-> "none", by |-> "none"]

Event(k, t) == [kind |-> k, text |-> t]

\* two configurations of the options pconsole only reads
ReadOnlyOptions ==
    {[format |-> <<"m","p","3">>, ytm_data |-> FALSE],
     [format |-> <<"f","l","a","c">>, ytm_data |-> TRUE]}

InitialSettings ==
    {[output |-> o,
      space_replacer |-> k,
      format |-> c.format,
      ytm_data |-> c.ytm_data,
      playlist_numbering |-> FALSE,
      ignore_albums |-> <<>>,
      album_type |-> "album",
      playlist_retain_track_cover |-> FALSE] :
        o \in {"{artists} - {title}.{output-ext}", StructuredTemplate},
        k \in {"absent", "foreign"},
        c \in ReadOnlyOptions}

-----------------------------------------------------------------------------
(* The space replacer and the wrapper. *)

\* a replacer that hyphenates the directory segments too
space_replacer_whole_path(filename) == ReplaceSpaces(filename)

\* a replacer that takes parts[0] for parts[-1]
space_replacer_first_segment(filename) ==
    IF filename = <<>>
    THEN filename
    ELSE LET parts == Split(filename)
         IN  Join([parts EXCEPT ![1] = ReplaceSpaces(parts[1])])

\* space_replacer (lines 44-51)
space_replacer(filename) ==
    IF filename = <<>>
    THEN filename
    ELSE LET parts == Split(filename)
             n == Len(parts)
         IN  Join([parts EXCEPT ![n] = ReplaceSpaces(parts[n])])

\* a wrapper that calls the replacer of its closure without looking at the settings
download_song_to_file_wrapper_own_replacer(file_path, st) ==
    IF file_path # <<>> THEN {space_replacer(file_path)} ELSE {file_path}

\* download_song_to_file_wrapper (lines 127-132): the paths the wrapper can hand
\* to the entry point it wraps; a replacer that is not pconsole's own is unknown
download_song_to_file_wrapper(file_path, st) ==
    IF file_path # <<>> /\ st.space_replacer # "absent"
    THEN IF st.space_replacer = "session"
         THEN {space_replacer(file_path)}
         ELSE SeqsUpTo(PathChars \cup {"-"}, MaxPathLen)
    ELSE {file_path}

\* a call of downloader.download_song_to_file through n stacked wrappers:
\* the paths the method itself can receive
RECURSIVE CallEntryPoint(_, _, _)
CallEntryPoint(n, P, st) ==
    IF n = 0
    THEN P
    ELSE CallEntryPoint(n - 1, UNION {download_song_to_file_wrapper(p, st) : p \in P}, st)

-----------------------------------------------------------------------------
(* Setup and teardown. *)

\* a setup that leaves the output template alone
SetupKeepsOutput(st, structured, replace) ==
    IF replace THEN [st EXCEPT !.space_replacer = "session"] ELSE st

\* lines 36-58
Setup(st, structured, replace) ==
    LET a == IF structured THEN [st EXCEPT !.output = StructuredTemplate] ELSE st
    IN  IF replace THEN [a EXCEPT !.space_replacer = "session"] ELSE a

\* Teardown that forgets to put the output template back
TeardownKeepsOutput(st) ==
    IF replace_spaces /\ st.space_replacer # "absent"
    THEN [st EXCEPT !.space_replacer = "absent"]
    ELSE st

\* Teardown that forgets to delete the space_replacer key
TeardownKeepsReplacer(st) ==
    IF use_artist_album_structure THEN [st EXCEPT !.output = original_output] ELSE st

\* Teardown that deletes the space_replacer key whether or not the call added it
TeardownAlwaysDeletes(st) ==
    LET a == IF use_artist_album_structure THEN [st EXCEPT !.output = original_output] ELSE st
    IN  [a EXCEPT !.space_replacer = "absent"]

\* the finally block, lines 148-155
Teardown(st) ==
    LET a == IF use_artist_album_structure THEN [st EXCEPT !.output = original_output] ELSE st
    IN  IF replace_spaces /\ a.space_replacer # "absent"
        THEN [a EXCEPT !.space_replacer = "absent"]
        ELSE a

\* an except clause that names EOFError alone
CaughtEndOfInputOnly(kind) == kind = "EOFError"

\* an except clause that catches every exception
CaughtEverything(kind) == TRUE

\* except (KeyboardInterrupt, EOFError), line 146
Caught(kind) == kind \in {"KeyboardInterrupt", "EOFError"}

\* an exception of this kind leaves the try block: lines 146-155
Leave(kind) ==
    /\ out' = IF Caught(kind) THEN <<Event("farewell", <<>>)>> ELSE <<>>
    /\ outcome' = IF Caught(kind) THEN "returned" ELSE "raised"
    /\ settings' = Teardown(settings)
    /\ exitedBy' = [at |-> pc, by |-> kind]
    /\ pc' = "stopped"

-----------------------------------------------------------------------------
(* The state after the downloader is constructed. *)

Init ==
    /\ settings \in InitialSettings
    /\ download_song_to_file = 0
    /\ use_artist_album_structure = FALSE
    /\ replace_spaces = FALSE
    /\ original_output = ""
    /\ original_download_song_to_file = 0
    /\ line = <<>>
    /\ url = <<>>
    /\ songs = <<>>
    /\ pc = "idle"
    /\ eof = FALSE
    /\ out = <<>>
    /\ outcome = "none"
    /\ resolveCall = NoCall
    /\ batchCall = NoCall
    /\ nResolve = 0
    /\ nBatch = 0
    /\ lastDownload = NoCall
    /\ settings0 = settings
    /\ entry0 = 0
    /\ exitedBy = NoExit
    /\ laterDownload = NoCall

-----------------------------------------------------------------------------
(* The steps of pconsole. *)

\* pconsole is called: lines 29-72
Pconsole(structured, replace) ==
    /\ pc \in {"idle", "stopped", "ended"}
    /\ download_song_to_file < MaxWrap
    /\ settings0' = settings
    /\ entry0' = download_song_to_file
    /\ use_artist_album_structure' = structured
    /\ replace_spaces' = replace
    /\ original_output' = settings.output
    /\ settings' = Setup(settings, structured, replace)
    /\ out' = <<Event("welcome", <<>>)>>
    /\ outcome' = "none"
    /\ line' = <<>>
    /\ url' = <<>>
    /\ songs' = <<>>
    /\ resolveCall' = NoCall
    /\ batchCall' = NoCall
    /\ nResolve' = 0
    /\ nBatch' = 0
    /\ lastDownload' = NoCall
    /\ exitedBy' = NoExit
    /\ laterDownload' = NoCall
    /\ pc' = "await"
    /\ UNCHANGED <<download_song_to_file, original_download_song_to_file, eof>>

\* lines 91-93: prompt, read a line, strip it; at end of input readline() returns ""
ReadLine ==
    /\ pc = "await"
    /\ \E l \in (IF eof THEN {<<>>} ELSE InputLines \cup {<<>>}) :
          /\ line' = l
          /\ eof' = (l = <<>>)
          /\ url' = Strip(l)
    /\ out' = <<Event("prompt", <<>>)>>
    /\ resolveCall' = NoCall
    /\ batchCall' = NoCall
    /\ nResolve' = 0
    /\ nBatch' = 0
    /\ lastDownload' = NoCall
    /\ pc' = "dispatch"
    /\ UNCHANGED <<laterDownload, settings, download_song_to_file, use_artist_album_structure, replace_spaces,
                   original_output, original_download_song_to_file, songs, outcome, exitedBy,
                   settings0, entry0>>

\* lines 95-96
EmptyLine ==
    /\ pc = "dispatch"
    /\ url = <<>>
    /\ out' = <<>>
    /\ pc' = "await"
    /\ UNCHANGED <<laterDownload, settings, download_song_to_file, use_artist_album_structure, replace_spaces,
                   original_output, original_download_song_to_file, line, url, songs, eof,
                   outcome, exitedBy, resolveCall, batchCall, nResolve, nBatch, lastDownload,
                   settings0, entry0>>

\* an exit test that looks for the word anywhere in the line
IsExitAnywhere(u) == Contains(ExitWord, Lower(u)) \/ Contains(QuitWord, Lower(u))

\* line 101
IsExit(u) == Lower(u) \in {ExitWord, QuitWord}

\* line 104
IsHelp(u) == Lower(u) = HelpWord

\* an album test that ignores case
IsAlbumUrlAnyCase(u) == Contains(AlbumWord, Lower(u)) /\ Contains(SpotifyHost, Lower(u))

\* an album test that is content with one of the two substrings
IsAlbumUrlEither(u) == Contains(AlbumWord, u) \/ Contains(SpotifyHost, u)

\* line 109
IsAlbumUrl(u) == Contains(AlbumWord, u) /\ Contains(SpotifyHost, u)

\* lines 99-102, then the finally block
ExitCommand ==
    /\ pc = "dispatch"
    /\ url # <<>>
    /\ IsExit(url)
    /\ out' = <<Event("echo", url)>>
    /\ outcome' = "returned"
    /\ settings' = Teardown(settings)
    /\ exitedBy' = [at |-> pc, by |-> "break"]
    /\ pc' = "stopped"
    /\ UNCHANGED <<laterDownload, download_song_to_file, use_artist_album_structure, replace_spaces,
                   original_output, original_download_song_to_file, line, url, songs, eof,
                   resolveCall, batchCall, nResolve, nBatch, lastDownload, settings0, entry0>>

\* a help block that prints the default format instead of the one in the settings
HelpCommandDefaultFormat ==
    /\ pc = "dispatch"
    /\ url # <<>>
    /\ ~IsExit(url)
    /\ IsHelp(url)
    /\ out' = <<Event("echo", url), Event("help", <<"m","p","3">>)>>
    /\ pc' = "await"
    /\ UNCHANGED <<laterDownload, settings, download_song_to_file, use_artist_album_structure,
                   replace_spaces, original_output, original_download_song_to_file, line, url,
                   songs, eof, outcome, exitedBy, resolveCall, batchCall, nResolve, nBatch,
                   lastDownload, settings0, entry0>>

\* lines 99, 104-106 and show_help, lines 74-86
HelpCommand ==
    /\ pc = "dispatch"
    /\ url # <<>>
    /\ ~IsExit(url)
    /\ IsHelp(url)
    /\ out' = <<Event("echo", url), Event("help", settings.format)>>
    /\ pc' = "await"
    /\ UNCHANGED <<laterDownload, settings, download_song_to_file, use_artist_album_structure, replace_spaces,
                   original_output, original_download_song_to_file, line, url, songs, eof,
                   outcome, exitedBy, resolveCall, batchCall, nResolve, nBatch, lastDownload,
                   settings0, entry0>>

\* lines 99, 109, 143-144
Unsupported ==
    /\ pc = "dispatch"
    /\ url # <<>>
    /\ ~IsExit(url)
    /\ ~IsHelp(url)
    /\ ~IsAlbumUrl(url)
    /\ out' = <<Event("echo", url), Event("error", <<>>)>>
    /\ pc' = "await"
    /\ UNCHANGED <<laterDownload, settings, download_song_to_file, use_artist_album_structure, replace_spaces,
                   original_output, original_download_song_to_file, line, url, songs, eof,
                   outcome, exitedBy, resolveCall, batchCall, nResolve, nBatch, lastDownload,
                   settings0, entry0>>

\* lines 99, 109-120: get_simple_songs is called
AlbumUrl ==
    /\ pc = "dispatch"
    /\ url # <<>>
    /\ ~IsExit(url)
    /\ ~IsHelp(url)
    /\ IsAlbumUrl(url)
    /\ out' = <<Event("echo", url), Event("info", url)>>
    /\ resolveCall' = [made |-> TRUE,
                       query |-> <<url>>,
                       use_ytm_data |-> settings.ytm_data,
                       playlist_numbering |-> settings.playlist_numbering,
                       albums_to_ignore |-> settings.ignore_albums,
                       album_type |-> settings.album_type,
                       playlist_retain_track_cover |-> settings.playlist_retain_track_cover]
    /\ nResolve' = nResolve + 1
    /\ pc' = "resolving"
    /\ UNCHANGED <<laterDownload, settings, download_song_to_file, use_artist_album_structure, replace_spaces,
                   original_output, original_download_song_to_file, line, url, songs, eof,
                   outcome, exitedBy, batchCall, nBatch, lastDownload, settings0, entry0>>

\* get_simple_songs returns; lines 122-138: the wrapper is installed and
\* download_multiple_songs is called
ResolveReturns(result) ==
    /\ pc = "resolving"
    /\ songs' = result
    /\ IF replace_spaces
       THEN /\ original_download_song_to_file' = download_song_to_file
            /\ download_song_to_file' = download_song_to_file + 1
       ELSE UNCHANGED <<laterDownload, original_download_song_to_file, download_song_to_file>>
    /\ batchCall' = [made |-> TRUE, songs |-> result]
    /\ nBatch' = nBatch + 1
    /\ out' = <<>>
    /\ pc' = "batch"
    /\ UNCHANGED <<laterDownload, settings, use_artist_album_structure, replace_spaces, original_output,
                   line, url, eof, outcome, exitedBy, resolveCall, nResolve, lastDownload,
                   settings0, entry0>>

\* get_simple_songs raises, or the user interrupts it: lines 146-155
ResolveRaises(kind) ==
    /\ pc = "resolving"
    /\ Leave(kind)
    /\ UNCHANGED <<laterDownload, download_song_to_file, use_artist_album_structure, replace_spaces,
                   original_output, original_download_song_to_file, line, url, songs, eof,
                   resolveCall, batchCall, nResolve, nBatch, lastDownload, settings0, entry0>>

\* download_multiple_songs calls downloader.download_song_to_file for one of the songs
DownloadSong(file_path) ==
    /\ pc = "batch"
    /\ songs # <<>>
    /\ \E received \in CallEntryPoint(download_song_to_file, {file_path}, settings) :
          lastDownload' = [made |-> TRUE,
                           file_path |-> file_path,
                           received |-> received,
                           wrappers |-> download_song_to_file]
    /\ out' = <<>>
    /\ UNCHANGED <<laterDownload, settings, download_song_to_file, use_artist_album_structure, replace_spaces,
                   original_output, original_download_song_to_file, line, url, songs, pc, eof,
                   outcome, exitedBy, resolveCall, batchCall, nResolve, nBatch, settings0, entry0>>

\* a return from the batch that leaves the wrapper in place
BatchReturnsKeepsWrapper ==
    /\ pc = "batch"
    /\ out' = <<>>
    /\ pc' = "await"
    /\ UNCHANGED <<laterDownload, settings, download_song_to_file, use_artist_album_structure, replace_spaces,
                   original_output, original_download_song_to_file, line, url, songs, eof,
                   outcome, exitedBy, resolveCall, batchCall, nResolve, nBatch, lastDownload,
                   settings0, entry0>>

\* a return from the batch that is followed by a break out of the loop
BatchReturnsThenBreaks ==
    /\ pc = "batch"
    /\ IF replace_spaces
       THEN download_song_to_file' = original_download_song_to_file
       ELSE UNCHANGED download_song_to_file
    /\ out' = <<>>
    /\ outcome' = "returned"
    /\ settings' = Teardown(settings)
    /\ exitedBy' = [at |-> pc, by |-> "break"]
    /\ pc' = "stopped"
    /\ UNCHANGED <<laterDownload, use_artist_album_structure, replace_spaces, original_output,
                   original_download_song_to_file, line, url, songs, eof, resolveCall,
                   batchCall, nResolve, nBatch, lastDownload, settings0, entry0>>

\* download_multiple_songs returns; lines 140-142, then back to line 89
BatchReturns ==
    /\ pc = "batch"
    /\ IF replace_spaces
       THEN download_song_to_file' = original_download_song_to_file
       ELSE UNCHANGED download_song_to_file
    /\ out' = <<>>
    /\ pc' = "await"
    /\ UNCHANGED <<laterDownload, settings, use_artist_album_structure, replace_spaces, original_output,
                   original_download_song_to_file, line, url, songs, eof, outcome, exitedBy,
                   resolveCall, batchCall, nResolve, nBatch, lastDownload, settings0, entry0>>

\* download_multiple_songs raises, or the user interrupts it: lines 146-155
BatchRaises(kind) ==
    /\ pc = "batch"
    /\ Leave(kind)
    /\ UNCHANGED <<laterDownload, download_song_to_file, use_artist_album_structure, replace_spaces,
                   original_output, original_download_song_to_file, line, url, songs, eof,
                   resolveCall, batchCall, nResolve, nBatch, lastDownload, settings0, entry0>>

\* the user interrupts the read at the prompt: lines 146-155
InterruptAtPrompt ==
    /\ pc = "await"
    /\ Leave("KeyboardInterrupt")
    /\ UNCHANGED <<laterDownload, download_song_to_file, use_artist_album_structure, replace_spaces,
                   original_output, original_download_song_to_file, line, url, songs, eof,
                   resolveCall, batchCall, nResolve, nBatch, lastDownload, settings0, entry0>>

\* pconsole has returned or raised: control is back with its caller and the
\* locals of the call are gone; the downloader stays as the call left it
CallerResumes ==
    /\ pc = "stopped"
    /\ pc' = "ended"
    /\ use_artist_album_structure' = FALSE
    /\ replace_spaces' = FALSE
    /\ original_output' = ""
    /\ line' = <<>>
    /\ url' = <<>>
    /\ songs' = <<>>
    /\ out' = <<>>
    /\ outcome' = "none"
    /\ resolveCall' = NoCall
    /\ batchCall' = NoCall
    /\ nResolve' = 0
    /\ nBatch' = 0
    /\ lastDownload' = NoCall
    /\ settings0' = settings
    /\ entry0' = download_song_to_file
    /\ exitedBy' = NoExit
    /\ UNCHANGED <<settings, download_song_to_file, original_download_song_to_file, eof,
                   laterDownload>>

\* after the call has ended, the downloader's owner calls
\* downloader.download_song_to_file while a wrapper (lines 127-132) is still on it
LaterDownload(file_path) ==
    /\ pc = "ended"
    /\ download_song_to_file > 0
    /\ \E received \in CallEntryPoint(download_song_to_file, {file_path}, settings) :
          laterDownload' = [made |-> TRUE,
                            file_path |-> file_path,
                            received |-> received,
                            wrappers |-> download_song_to_file]
    /\ UNCHANGED <<settings, download_song_to_file, use_artist_album_structure, replace_spaces,
                   original_output, original_download_song_to_file, line, url, songs, pc, eof,
                   out, outcome, exitedBy, resolveCall, batchCall, nResolve, nBatch,
                   lastDownload, settings0, entry0>>

\* the steps the program takes by itself once the line is read
Dispatch == EmptyLine \/ ExitCommand \/ HelpCommand \/ Unsupported \/ AlbumUrl

Next ==
    \/ \E s \in BOOLEAN, r \in BOOLEAN : Pconsole(s, r)
    \/ ReadLine
    \/ EmptyLine
    \/ ExitCommand
    \/ HelpCommand
    \/ Unsupported
    \/ AlbumUrl
    \/ \E result \in SongLists : ResolveReturns(result)
    \/ \E kind \in Raised : ResolveRaises(kind)
    \/ \E p \in Paths : DownloadSong(p)
    \/ BatchReturns
    \/ \E kind \in Raised : BatchRaises(kind)
    \/ InterruptAtPrompt
    \/ CallerResumes
    \/ \E p \in Paths : LaterDownload(p)

Spec == Init /\ [][Next]_vars

\* the loop keeps running: a line that was read is dispatched, and a read of an
\* exhausted stream returns at once
FairSpec == Spec /\ WF_vars(Dispatch) /\ WF_vars(eof /\ ReadLine)

-----------------------------------------------------------------------------
(* The claims. *)

Stopped == pc = "stopped"
Farewell == Event("farewell", <<>>)
Printed(e) == \E i \in 1..Len(out) : out[i] = e

\* C1: whenever pconsole has stopped, by the exit command, an interrupt at the
\* prompt or during a call, or a failure of resolution or download that
\* propagates, settings["output"] is what it was when pconsole was called.
C1_OutputRestored == Stopped => settings.output = settings0.output

\* a call with the structured flag that overwrote a different template and
\* ended by a propagating failure
C1_Witness ==
    /\ Stopped
    /\ outcome = "raised"
    /\ use_artist_album_structure
    /\ settings0.output # StructuredTemplate

\* C2 as stated: once pconsole has stopped, the settings never hold the key
\* space_replacer, whatever the flag was and whatever the settings held before.
C2_ReplacerAbsent == Stopped => settings.space_replacer = "absent"

\* C2 amended: once pconsole has stopped, the key space_replacer is absent if
\* replace_spaces was set or the key was absent before the call; with
\* replace_spaces unset the key is as it was before the call.
C2_ReplacerAbsentIfInstalled ==
    Stopped =>
        /\ (replace_spaces \/ settings0.space_replacer = "absent")
              => settings.space_replacer = "absent"
        /\ ~replace_spaces => settings.space_replacer = settings0.space_replacer

\* a call with replace_spaces set on settings that already held the key, ended
\* by a propagating failure
C2_Witness ==
    /\ Stopped
    /\ outcome = "raised"
    /\ replace_spaces
    /\ settings0.space_replacer = "foreign"

\* C3: once the input stream is exhausted the loop eventually stops with the
\* farewell line.
C3_EndOfInputStops == (eof /\ pc = "await") ~> (Stopped /\ Printed(Farewell))

\* C4: with replace_spaces set, once pconsole has stopped the downloader's
\* download_song_to_file is the entry point it had before the call, also when
\* download_multiple_songs raised or was interrupted.
C4_EntryPointRestored ==
    (Stopped /\ replace_spaces) => download_song_to_file = entry0

\* C5: with replace_spaces set, whenever the loop awaits input the entry point
\* is the one the downloader had when pconsole was called; during a batch
\* exactly one wrapper of this call sits on it, and every download call of the
\* batch goes through exactly that one.
C5_WrappersNeverNest ==
    replace_spaces =>
        /\ pc \in {"await", "dispatch", "resolving"} => download_song_to_file = entry0
        /\ pc = "batch" => download_song_to_file = entry0 + 1
        /\ lastDownload.made => lastDownload.wrappers = entry0 + 1

\* back at the prompt after a batch that made a download call and returned
C5_Witness ==
    /\ replace_spaces
    /\ pc = "await"
    /\ nBatch = 1
    /\ lastDownload.made

\* the position of the last '/' of a path, 0 when it has none
LastSlash(p) ==
    LET S == {i \in 1..Len(p) : p[i] = "/"}
    IN  IF S = {} THEN 0 ELSE CHOOSE i \in S : \A j \in S : j <= i

\* the path with each space after its last '/' turned into a hyphen
HyphenatedLastSegment(p) ==
    [i \in 1..Len(p) |-> IF i > LastSlash(p) /\ p[i] = " " THEN "-" ELSE p[i]]

\* C6: with replace_spaces set, the method receives a non-empty path with the
\* spaces of its last segment, and only those, turned into hyphens; with
\* replace_spaces unset it receives the path as given.
C6_LastSegmentHyphenated ==
    lastDownload.made =>
        /\ (replace_spaces /\ lastDownload.file_path # <<>>)
              => lastDownload.received = HyphenatedLastSegment(lastDownload.file_path)
        /\ ~replace_spaces => lastDownload.received = lastDownload.file_path

\* " / " is received as " /-": the directory keeps its space
C6_Witness ==
    /\ replace_spaces
    /\ lastDownload.made
    /\ lastDownload.file_path = <<" ", "/", " ">>
    /\ lastDownload.received = <<" ", "/", "-">>

\* the line without the whitespace at its two ends
Trim(l) ==
    LET S == {i \in 1..Len(l) : l[i] \notin Whitespace}
    IN  IF S = {}
        THEN <<>>
        ELSE SubSeq(l, CHOOSE i \in S : \A j \in S : i <= j,
                       CHOOSE i \in S : \A j \in S : j <= i)

\* sub occurs in s
HasSub(sub, s) ==
    \E a \in 1..Len(s) :
        \A k \in 1..Len(sub) : a + k - 1 <= Len(s) /\ s[a + k - 1] = sub[k]

\* w is word, up to the case of its letters
CaseVariant(w, word) ==
    /\ Len(w) = Len(word)
    /\ \A i \in 1..Len(w) :
          \/ w[i] = word[i]
          \/ \E k \in 1..Len(LowerLetters) : LowerLetters[k] = word[i] /\ UpperLetters[k] = w[i]

ExitLine(l) == CaseVariant(Trim(l), ExitWord) \/ CaseVariant(Trim(l), QuitWord)
HelpLine(l) == CaseVariant(Trim(l), HelpWord)
AlbumLine(l) ==
    /\ ~ExitLine(l)
    /\ ~HelpLine(l)
    /\ HasSub(AlbumWord, Trim(l))
    /\ HasSub(SpotifyHost, Trim(l))
UnsupportedLine(l) ==
    /\ Trim(l) # <<>>
    /\ ~ExitLine(l)
    /\ ~HelpLine(l)
    /\ ~(HasSub(AlbumWord, Trim(l)) /\ HasSub(SpotifyHost, Trim(l)))

\* the line read last has been dispatched
Dispatched == pc \in {"await", "resolving", "batch", "stopped"}

\* C7: a line is resolved exactly when its trimmed text holds both substrings,
\* once, with the one-element list of the trimmed line and the values the
\* settings hold; the batch download is called once, after resolution returned
\* and with the songs it returned, and only then is the loop back at the prompt.
C7_ResolveThenBatch ==
    /\ nResolve <= 1
    /\ nBatch <= 1
    /\ Dispatched => (nResolve = 1 <=> AlbumLine(line))
    /\ resolveCall.made <=> nResolve = 1
    /\ resolveCall.made =>
          /\ resolveCall.query = <<Trim(line)>>
          /\ resolveCall.use_ytm_data = settings.ytm_data
          /\ resolveCall.playlist_numbering = settings.playlist_numbering
          /\ resolveCall.albums_to_ignore = settings.ignore_albums
          /\ resolveCall.album_type = settings.album_type
          /\ resolveCall.playlist_retain_track_cover = settings.playlist_retain_track_cover
    /\ batchCall.made <=> nBatch = 1
    /\ batchCall.made => (nResolve = 1 /\ pc # "resolving" /\ batchCall.songs = songs)
    /\ pc = "resolving" => nBatch = 0
    /\ pc = "batch" => nBatch = 1
    /\ (pc = "await" /\ AlbumLine(line)) => nBatch = 1

\* back at the prompt after the batch of an album line typed with blanks around it
C7_Witness ==
    /\ pc = "await"
    /\ nResolve = 1
    /\ nBatch = 1
    /\ Len(batchCall.songs) = MaxSongs
    /\ line # Trim(line) \o <<"\n">>

\* C8: a line that is not empty, not a command and lacks one of the two
\* substrings causes no resolution and no download call, logs an error, leaves
\* the settings and the entry point as they are, and the loop awaits input again.
C8_UnsupportedLine ==
    [][(pc = "dispatch" /\ UnsupportedLine(line)) =>
          /\ pc' = "await"
          /\ nResolve' = 0
          /\ nBatch' = 0
          /\ ~resolveCall'.made
          /\ ~batchCall'.made
          /\ ~lastDownload'.made
          /\ \E i \in 1..Len(out') : out'[i] = Event("error", <<>>)
          /\ settings' = settings
          /\ download_song_to_file' = download_song_to_file]_vars

\* back at the prompt after a track link, the error logged
C8_Witness ==
    /\ pc = "await"
    /\ HasSub(<<"t","r","a","c","k">>, line)
    /\ Printed(Event("error", <<>>))

\* the call returned through the break of line 102
StoppedByExit == Stopped /\ outcome = "returned" /\ ~Printed(Farewell)

\* C9: the loop stops through the exit path exactly on a line that is exit or
\* quit once trimmed and lower-cased; that line causes no resolution and no
\* download call.
C9_ExitExactly ==
    Dispatched =>
        /\ StoppedByExit <=> ExitLine(line)
        /\ StoppedByExit => (nResolve = 0 /\ nBatch = 0 /\ ~lastDownload.made)

\* stopped by "  QUIT  "
C9_Witness ==
    /\ StoppedByExit
    /\ line = <<" ", " ", "Q","U","I","T", " ", " ", "\n">>

\* C10: an interrupt at the prompt prints the farewell line, runs teardown and
\* makes pconsole return normally; the exit command stops without the farewell.
C10_InterruptAtPrompt ==
    /\ [][(pc = "await" /\ pc' = "stopped") =>
             /\ out' = <<Farewell>>
             /\ outcome' = "returned"
             /\ settings'.output = settings0.output
             /\ replace_spaces => settings'.space_replacer = "absent"]_vars
    /\ [][(pc = "dispatch" /\ pc' = "stopped") =>
             /\ \A i \in 1..Len(out') : out'[i] # Farewell
             /\ outcome' = "returned"]_vars

\* stopped by an interrupt at the prompt, before any line was resolved
C10_Witness ==
    /\ Stopped
    /\ out = <<Farewell>>
    /\ outcome = "returned"
    /\ ~resolveCall.made
    /\ use_artist_album_structure
    /\ replace_spaces

\* C11: a line that is blank once trimmed, read while the stream is open, makes
\* the loop prompt again with no echo, no resolution and no download call, and
\* with the settings and the entry point as they were.
C11_BlankLine ==
    [][(pc = "dispatch" /\ line # <<>> /\ Trim(line) = <<>>) =>
          /\ pc' = "await"
          /\ out' = <<>>
          /\ nResolve' = 0
          /\ nBatch' = 0
          /\ ~resolveCall'.made
          /\ ~batchCall'.made
          /\ ~lastDownload'.made
          /\ settings' = settings
          /\ download_song_to_file' = download_song_to_file]_vars

\* back at the prompt after the line of two blanks
C11_Witness ==
    /\ pc = "await"
    /\ line = <<" ", " ", "\n">>
    /\ out = <<>>
    /\ ~eof

\* C12: a line that is help once trimmed and lower-cased prints the help block
\* with the format the settings hold, causes no resolution and no download
\* call, leaves the settings and the entry point as they were, and the loop
\* awaits input again.
C12_HelpLine ==
    [][(pc = "dispatch" /\ HelpLine(line)) =>
          /\ pc' = "await"
          /\ \E i \in 1..Len(out') : out'[i] = Event("help", settings.format)
          /\ nResolve' = 0
          /\ nBatch' = 0
          /\ ~resolveCall'.made
          /\ ~batchCall'.made
          /\ ~lastDownload'.made
          /\ settings' = settings
          /\ download_song_to_file' = download_song_to_file]_vars

\* back at the prompt after HELP, the help block showing flac
C12_Witness ==
    /\ pc = "await"
    /\ line = <<"H","E","L","P","\n">>
    /\ Printed(Event("help", <<"f","l","a","c">>))

\* AWAITING_INPUT is the read and the dispatch of the line, PROCESSING the two
\* collaborator calls
AwaitingInput == {"await", "dispatch"}
Processing == {"resolving", "batch"}

\* C13 as stated: the call stops from AWAITING_INPUT only, never from PROCESSING.
C13_StopsOnlyFromAwaitingInput == Stopped => exitedBy.at \in AwaitingInput

\* C13 amended: the call stops from AWAITING_INPUT on the exit command or an
\* interrupt, or from PROCESSING when resolution or the batch download raises
\* or is interrupted, never by their return; an interrupt during a batch stops
\* the call with the farewell line and a normal return.
C13_StopsFromProcessingByRaise ==
    Stopped =>
        /\ exitedBy.at \in AwaitingInput \cup Processing
        /\ exitedBy.at = "dispatch" <=> exitedBy.by = "break"
        /\ exitedBy.at = "await" => exitedBy.by \in {"KeyboardInterrupt", "EOFError"}
        /\ exitedBy.at \in Processing => exitedBy.by \in Raised
        /\ exitedBy.by \in {"KeyboardInterrupt", "EOFError"}
              => (Printed(Farewell) /\ outcome = "returned")
        /\ exitedBy.by = "Exception" => (~Printed(Farewell) /\ outcome = "raised")

\* stopped by an interrupt during a batch that had made a download call
C13_Witness ==
    /\ Stopped
    /\ exitedBy = [at |-> "batch", by |-> "KeyboardInterrupt"]
    /\ lastDownload.made
    /\ Printed(Farewell)

\* C14: a failure of resolution propagates with no farewell line, the batch
\* download is not called, no wrapper has been installed, and the settings
\* have been torn down.
C14_ResolutionFailurePropagates ==
    (Stopped /\ exitedBy = [at |-> "resolving", by |-> "Exception"]) =>
        /\ outcome = "raised"
        /\ ~Printed(Farewell)
        /\ nResolve = 1
        /\ nBatch = 0
        /\ ~batchCall.made
        /\ ~lastDownload.made
        /\ download_song_to_file = entry0
        /\ settings.output = settings0.output
        /\ replace_spaces => settings.space_replacer = "absent"

\* resolution failed in a call with both flags that had overwritten another template
C14_Witness ==
    /\ Stopped
    /\ exitedBy = [at |-> "resolving", by |-> "Exception"]
    /\ use_artist_album_structure
    /\ replace_spaces
    /\ settings0.output # StructuredTemplate

InLoop == pc \in AwaitingInput \cup Processing

\* C15: with structured set the output template is the fixed one in every state
\* of the loop and the saved one once the loop has stopped; without it the
\* output template is never anything but the one the call found.
C15_OverridesHeldThroughLoop ==
    /\ (InLoop /\ use_artist_album_structure) => settings.output = StructuredTemplate
    /\ (InLoop /\ use_artist_album_structure) => original_output = settings0.output
    /\ (Stopped /\ use_artist_album_structure) => settings.output = settings0.output
    /\ ((InLoop \/ Stopped) /\ ~use_artist_album_structure)
          => settings.output = settings0.output

\* a download call of a batch under the fixed template, another one saved
C15_Witness ==
    /\ pc = "batch"
    /\ use_artist_album_structure
    /\ lastDownload.made
    /\ settings.output = StructuredTemplate
    /\ settings0.output # StructuredTemplate

\* C16: with neither flag set the settings and the entry point are, in every
\* state of the call, what they were when pconsole was called.
C16_NoFlagsNoWrites ==
    ((InLoop \/ Stopped) /\ ~use_artist_album_structure /\ ~replace_spaces) =>
        /\ settings = settings0
        /\ download_song_to_file = entry0

\* a call without flags on settings that held a space_replacer key, ended by a
\* failure of a batch that had made a download call
C16_Witness ==
    /\ Stopped
    /\ ~use_artist_album_structure
    /\ ~replace_spaces
    /\ exitedBy = [at |-> "batch", by |-> "Exception"]
    /\ lastDownload.made
    /\ settings0.space_replacer = "foreign"

\* C17: a call made after the call of pconsole ended, through a wrapper that was
\* left on the downloader, hands the path to the method as it was given: the
\* settings hold no space_replacer any more.
C17_LeftOverWrapperPassesThrough ==
    laterDownload.made =>
        /\ laterDownload.wrappers > 0
        /\ settings.space_replacer = "absent"
        /\ laterDownload.received = laterDownload.file_path

\* a later call with a space in the last segment of its path
C17_Witness ==
    /\ laterDownload.made
    /\ laterDownload.file_path = <<"a", "/", " ">>
    /\ laterDownload.received = <<"a", "/", " ">>

\* C18: the replacer is idempotent, returns the empty path and a path without a
\* space in its last segment as they are, and a path handed through two
\* stacked wrappers reaches the method as through one.
C18_ReplacerIdempotent ==
    (pc = "batch" /\ replace_spaces /\ lastDownload.made) =>
        LET p == lastDownload.file_path
            r == lastDownload.received
        IN  /\ r \in download_song_to_file_wrapper(p, settings)
            /\ space_replacer(r) = r
            /\ space_replacer(space_replacer(p)) = space_replacer(p)
            /\ p = <<>> => r = p
            /\ (\A i \in 1..Len(p) : i > LastSlash(p) => p[i] # " ") => r = p

\* " / " handed through two stacked wrappers is received as " /-"
C18_Witness ==
    /\ pc = "batch"
    /\ replace_spaces
    /\ lastDownload.made
    /\ lastDownload.wrappers = 2
    /\ lastDownload.file_path = <<" ", "/", " ">>
    /\ lastDownload.received = <<" ", "/", "-">>

====
